---- MODULE Spec2Model ----
(***************************************************************************)
(* Model of the flight-log parser SmartGPSParserV2                         *)
(* (src/smart_gps_parser_v2.py): record framing, the two-phase decoding    *)
(* pass of parse_all with its running coordinate history and region        *)
(* estimate, and the two exporters.                                        *)
(*                                                                         *)
(* Values.  A record is a sequence of bytes (0..255), 1-indexed here, so   *)
(* Python's record[k] is rec[k+1].  A Python float that comes out of       *)
(* struct.unpack('<f', ...) is a float32 value; it is kept exactly, as the *)
(* sign bit and the 31 magnitude bits of its IEEE-754 pattern              *)
(* ([kind |-> "float", neg, mag]).  Every comparison the code makes        *)
(* between such a value and a literal is then an exact integer comparison  *)
(* of magnitudes.  Python's None is NoneVal.  Arithmetic (haversine,       *)
(* centroid, altitude mean) is done in fixed point, see Deg5 and AltNum.  *)
(***************************************************************************)
EXTENDS Integers, Sequences, FiniteSets, TLC

VARIABLES
    data,            \* self.data: the file's bytes
    records,         \* self.records: <<[pos, rec]>> as find_records returns them
    gps_known,       \* self.gps_known
    gps_discovered,  \* self.gps_discovered
    gps_all,         \* self.gps_all
    telemetry,       \* self.telemetry
    coord_history,   \* self.coord_history: <<lat, lon>> pairs
    region_center,   \* self.region_center: <<>> for None, else <<lat, lon>>
    pc,              \* position in the pipeline of __main__ / parse_all
    idx,             \* loop index of the running phase of parse_all (1-based)
    gps_pos,         \* history: start offset of the record behind each gps_all entry
    region_pos,      \* history: start offsets of the records behind region_center
    csv_rows,        \* rows written by export_all_gps_csv (<<>> until written)
    csv_done,        \* export_all_gps_csv has run
    kml              \* what export_trajectory_kml computed ([written |-> FALSE] before)

vars == <<data, records, gps_known, gps_discovered, gps_all, telemetry,
          coord_history, region_center, pc, idx, gps_pos, region_pos,
          csv_rows, csv_done, kml>>

-----------------------------------------------------------------------------
(* Small helpers *)

Min(a, b) == IF a < b THEN a ELSE b
Max(a, b) == IF a > b THEN a ELSE b
Abs(a) == IF a < 0 THEN -a ELSE a

\* Python's s[a:b] for 0 <= a on a 1-indexed sequence (b is clipped to len(s)).
Slice(s, a, b) == SubSeq(s, a + 1, Min(b, Len(s)))

\* Python's x // y for y > 0 and any sign of x is \div; for non-negative operands
\* "/" followed by truncation is \div as well.

RECURSIVE SumSeq(_)
SumSeq(s) == IF s = <<>> THEN 0 ELSE Head(s) + SumSeq(Tail(s))

-----------------------------------------------------------------------------
(* float32 values *)

NoneVal == [kind |-> "none", neg |-> FALSE, mag |-> 0]
Flt(neg, mag) == [kind |-> "float", neg |-> neg, mag |-> mag]

\* Magnitude pattern of +infinity; larger magnitudes are NaNs.
InfBits == 255 * 8388608

IsNone(x) == x.kind = "none"
IsNaN(x) == x.kind = "float" /\ x.mag > InfBits

\* A key that orders the non-NaN floats as IEEE does (-0.0 = 0.0).
Key(x) == IF x.neg THEN -x.mag ELSE x.mag

\* Python's x < y, x <= y on floats: False as soon as one side is NaN.
FLt(x, y) == ~IsNaN(x) /\ ~IsNaN(y) /\ Key(x) < Key(y)
FLe(x, y) == ~IsNaN(x) /\ ~IsNaN(y) /\ Key(x) <= Key(y)
FAbs(x) == Flt(FALSE, x.mag)

\* struct.unpack('<f', b): the four bytes b[0..3], little endian.
UnpackF(b) == Flt(b[4] >= 128,
                  (b[4] % 128) * 16777216 + b[3] * 65536 + b[2] * 256 + b[1])

\* struct.pack('<f', x), used to lay out the input records.
PackF(x) == << x.mag % 256, (x.mag \div 256) % 256, (x.mag \div 65536) % 256,
               (x.mag \div 16777216) + (IF x.neg THEN 128 ELSE 0) >>

\* struct.unpack('<I', b): uint32, little endian.
UnpackI(b) == b[1] + b[2] * 256 + b[3] * 65536 + b[4] * 16777216

\* Significand and binary exponent of a finite float: |x| = Sig(x) * 2^(Exp(x)-150).
Exp(x) == Max(x.mag \div 8388608, 1)
Sig(x) == (x.mag % 8388608) + (IF x.mag \div 8388608 = 0 THEN 0 ELSE 8388608)

\* A coordinate in units of 10^-5 degree, truncated toward zero.  Only applied
\* to coordinates that passed is_valid_coordinate (|x| <= 180, so Exp(x) <= 134).
\* 10^5 = 3125 * 2^5, and the significand is split in two halves of 12 bits to
\* stay inside TLC's 32-bit integers; the result is exact.
Deg5(x) ==
    LET k  == 145 - Exp(x)
        hi == (Sig(x) \div 4096) * 3125
        lo == (Sig(x) % 4096) * 3125
        m  == IF k > 40 THEN 0
              ELSE IF k >= 12 THEN (hi + lo \div 4096) \div 2^(k - 12)
              ELSE hi * 2^(12 - k) + lo \div 2^k
    IN  IF x.neg THEN -m ELSE m

-----------------------------------------------------------------------------
(* calculate_distance: haversine, in fixed point.  Coordinates are in      *)
(* units of 10^-5 degree and the result is in metres.  Two points less     *)
(* than SmallAngle apart in latitude and in longitude take half-angles in  *)
(* microradians (an error of some 20 m); all the distances the code        *)
(* compares with 30, 50 and 200 km are of this kind in the inputs below.   *)
(* Other pairs take sines and cosines scaled by Scale (a resolution of     *)
(* about 640 m).                                                           *)

Scale == 2 * 10000
SmallAngle == 3 * 100000

\* math.radians, scaled by Scale: pi/180 = 0.017453 rad per degree.
Radians(mdeg) == (mdeg * 3491) \div 10000

\* math.sin for 0 <= mdeg <= 180000 millidegrees (Taylor series to the 7th power).
Sin(mdeg) ==
    LET r  == Radians(IF mdeg > 90000 THEN 180000 - mdeg ELSE mdeg)
        r2 == (r * r) \div Scale
        t7 == Scale - r2 \div 42
        t5 == Scale - ((r2 * t7) \div Scale) \div 20
        t3 == Scale - ((r2 * t5) \div Scale) \div 6
    IN  (r * t3) \div Scale

\* math.cos for -90000 <= mdeg <= 90000 millidegrees.
Cos(mdeg) == Sin(90000 - Abs(mdeg))

\* math.sqrt on integers, rounded down.
RECURSIVE SqrtBetween(_, _, _)
SqrtBetween(n, lo, hi) ==
    IF lo >= hi THEN lo
    ELSE LET mid == (lo + hi + 1) \div 2
         IN  IF mid * mid <= n THEN SqrtBetween(n, mid, hi)
             ELSE SqrtBetween(n, lo, mid - 1)
Sqrt(n) == SqrtBetween(n, 0, 46340)

\* asin(s) for 0 <= s <= Scale/sqrt(2) (series to the 7th power).
AsinSmall(s) ==
    LET s2 == (s * s) \div Scale
        s3 == (s * s2) \div Scale
        s5 == (s3 * s2) \div Scale
        s7 == (s5 * s2) \div Scale
    IN  s + s3 \div 6 + (3 * s5) \div 40 + (15 * s7) \div 336

\* math.atan2(sqrt(a), sqrt(1-a)) for a scaled by Scale^2.
Atan2Sqrt(a) ==
    IF 2 * a <= Scale * Scale THEN AsinSmall(Sqrt(a))
    ELSE 31416 - AsinSmall(Sqrt(Scale * Scale - a))

\* x * y / Scale without an intermediate product above 2^31.
MulScaled(x, y) == (x \div Scale) * y + ((x % Scale) * y) \div Scale

\* x - x^3/6 (the sine) or x + x^3/6 (the arcsine) of a small angle in microradians.
Cubic(x) == (((x * x) \div 1000000) * x) \div 6000000

\* math.radians(d) / 2 in microradians: 0.0872665 per 10^-5 degree.
HalfAngle(d) == (d * 1745) \div 20000 + (d * 33) \div 2000000

\* The haversine formula for dlat, dlon <= SmallAngle.
DistanceSmall(lat1, lat2, dlat, dlon) ==
    LET R     == 6371
        hLat  == HalfAngle(dlat)
        hLon  == HalfAngle(dlon)
        sLat  == hLat - Cubic(hLat)
        sLon  == hLon - Cubic(hLon)
        cc    == (Cos(lat1 \div 100) * Cos(lat2 \div 100)) \div Scale
        a     == sLat * sLat + MulScaled(sLon * sLon, cc)
        s     == Sqrt(a)
        c     == 2 * (s + Cubic(s))
    IN  (R * c) \div 1000

\* The haversine formula for any two points.
DistanceLarge(lat1, lat2, dlat, dlon) ==
    LET R     == 6371
        sLat  == Sin(dlat \div 200)
        sLon  == Sin(dlon \div 200)
        cc    == (Cos(lat1 \div 100) * Cos(lat2 \div 100)) \div Scale
        a     == Min(sLat * sLat + MulScaled(cc * sLon, sLon), Scale * Scale)
        c     == 2 * Atan2Sqrt(a)
    IN  (R * c) \div (Scale \div 1000)

calculate_distance(lat1, lon1, lat2, lon2) ==
    LET dlat == Abs(lat2 - lat1)
        dlon == Abs(lon2 - lon1)
    IN  IF dlat <= SmallAngle /\ dlon <= SmallAngle
        THEN DistanceSmall(lat1, lat2, dlat, dlon)
        ELSE DistanceLarge(lat1, lat2, dlat, dlon)

\* A distance literal of the code, in kilometres there.
Km(n) == n * 1000

-----------------------------------------------------------------------------
(* Record Framer *)

Delim == 126    \* 0x7E

\* self.data.find(b'\x7E', start): the 0-based index of the next delimiter, or -1.
Find(d, start) ==
    IF \E i \in start..(Len(d) - 1) : d[i + 1] = Delim
    THEN CHOOSE i \in start..(Len(d) - 1) :
             d[i + 1] = Delim /\ \A j \in start..(i - 1) : d[j + 1] # Delim
    ELSE -1

\* The while loop of find_records, from position i on.
RECURSIVE RecordsFrom(_, _)
RecordsFrom(d, i) ==
    IF i >= Len(d) THEN <<>>
    ELSE IF d[i + 1] = Delim
         THEN LET f        == Find(d, i + 1)
                  next_pos == IF f = -1 THEN Len(d) ELSE f
              IN  <<[pos |-> i, rec |-> Slice(d, i, next_pos)]>>
                      \o RecordsFrom(d, next_pos)
         ELSE RecordsFrom(d, i + 1)

\* A variant of find_records that drops the records too short to classify.
find_records_long(d) == SelectSeq(RecordsFrom(d, 0), LAMBDA r : Len(r.rec) >= 4)

find_records(d) == RecordsFrom(d, 0)

-----------------------------------------------------------------------------
(* Validity and the Region Tracker *)

F90    == Flt(FALSE, 1119092736)   \* 90.0
F180   == Flt(FALSE, 1127481344)   \* 180.0
F1     == Flt(FALSE, 1065353216)   \* 1.0
F500   == Flt(FALSE, 1140457472)   \* 500.0
F10000 == Flt(FALSE, 1176256512)   \* 10000.0
F100   == Flt(FALSE, 1120403456)   \* 100.0
F0     == Flt(FALSE, 0)            \* 0.0
\* 0.01 is no float32: the smallest float32 above it.  For a float32 x,
\* x < 0.01 (compared as doubles) holds exactly when x is below this value.
F0_01  == Flt(FALSE, 1008981771)
FNeg(x) == Flt(~x.neg, x.mag)

\* A variant of is_valid_coordinate without the null-coordinate check.
is_in_range(lat, lon) ==
    IF IsNone(lat) \/ IsNone(lon) THEN FALSE
    ELSE IF ~(FLe(FNeg(F90), lat) /\ FLe(lat, F90)) THEN FALSE
    ELSE IF ~(FLe(FNeg(F180), lon) /\ FLe(lon, F180)) THEN FALSE
    ELSE TRUE

is_valid_coordinate(lat, lon) ==
    IF IsNone(lat) \/ IsNone(lon) THEN FALSE
    ELSE IF ~(FLe(FNeg(F90), lat) /\ FLe(lat, F90)) THEN FALSE
    ELSE IF ~(FLe(FNeg(F180), lon) /\ FLe(lon, F180)) THEN FALSE
    ELSE IF FLt(FAbs(lat), F0_01) /\ FLt(FAbs(lon), F0_01) THEN FALSE
    ELSE TRUE

\* A variant of Recent: the whole history.
RecentAll(hist) == hist

\* self.coord_history[-10:]
Recent(hist) == SubSeq(hist, Max(1, Len(hist) - 9), Len(hist))

\* The loop of is_geographically_coherent: min_distance over recent_coords,
\* -1 standing for float('inf').
RECURSIVE MinDistance(_, _, _)
MinDistance(lat, lon, recent) ==
    IF recent = <<>> THEN -1
    ELSE LET dist == calculate_distance(Deg5(lat), Deg5(lon),
                                        Deg5(Head(recent)[1]), Deg5(Head(recent)[2]))
             rest == MinDistance(lat, lon, Tail(recent))
         IN  IF rest = -1 THEN dist ELSE Min(dist, rest)

is_geographically_coherent(hist, lat, lon, max_jump_km) ==
    IF hist = <<>> THEN TRUE
    ELSE MinDistance(lat, lon, Recent(hist)) < Km(max_jump_km)

is_in_reasonable_region(region, lat, lon) ==
    IF region = <<>> THEN TRUE
    ELSE LET max_distance == Km(200)
         IN  calculate_distance(Deg5(lat), Deg5(lon),
                                Deg5(region[1]), Deg5(region[2])) < max_distance

\* The sequence f with its elements computed once.
Tab(f) == SubSeq(f, 1, Len(f))

\* sorted(s)[k] on floats (no NaN reaches the history): the element that k
\* others come before in a stable sort.
SortedAt(s, k) ==
    s[CHOOSE i \in 1..Len(s) :
        Cardinality({j \in 1..Len(s) :
            Key(s[j]) < Key(s[i]) \/ (Key(s[j]) = Key(s[i]) /\ j < i)}) = k]

\* A variant of update_region_center that takes the lower of the two middle
\* elements of an even number of values.
update_region_center_lower(hist, region) ==
    IF hist = <<>> THEN region
    ELSE << SortedAt(Tab([i \in 1..Len(hist) |-> hist[i][1]]), (Len(hist) - 1) \div 2),
            SortedAt(Tab([i \in 1..Len(hist) |-> hist[i][2]]), (Len(hist) - 1) \div 2) >>

\* update_region_center: the new value of self.region_center.
update_region_center(hist, region) ==
    IF hist = <<>> THEN region
    ELSE << SortedAt(Tab([i \in 1..Len(hist) |-> hist[i][1]]), Len(hist) \div 2),
            SortedAt(Tab([i \in 1..Len(hist) |-> hist[i][2]]), Len(hist) \div 2) >>

-----------------------------------------------------------------------------
(* Heuristic GPS Locator *)

\* A variant of CandidateAltitude without the range filter.
CandidateAltitudeAny(record, offset) ==
    IF offset + 12 <= Len(record)
    THEN UnpackF(Slice(record, offset + 8, offset + 12)) ELSE NoneVal

\* alt of a candidate at offset: the float after the pair when the record has
\* room for it and -500 < alt_candidate < 10000, else None.
CandidateAltitude(record, offset) ==
    LET alt_candidate == UnpackF(Slice(record, offset + 8, offset + 12))
    IN  IF offset + 12 <= Len(record)
           /\ FLt(FNeg(F500), alt_candidate)
           /\ FLt(alt_candidate, F10000)
        THEN alt_candidate ELSE NoneVal

\* The body of the for loop of find_gps_in_record at one offset: the candidate
\* it appends, or <<>> when a filter says continue.
CandidateAt(record, offset, hist, region) ==
    LET lat == UnpackF(Slice(record, offset, offset + 4))
        lon == UnpackF(Slice(record, offset + 4, offset + 8))
    IN  IF ~is_valid_coordinate(lat, lon) THEN <<>>
        ELSE IF FLt(FAbs(lat), F1) /\ FLt(FAbs(lon), F1) THEN <<>>
        ELSE IF ~is_geographically_coherent(hist, lat, lon, 50) THEN <<>>
        ELSE IF Len(hist) > 10 /\ ~is_in_reasonable_region(region, lat, lon) THEN <<>>
        ELSE <<[offset |-> offset, latitude |-> lat, longitude |-> lon,
                altitude |-> CandidateAltitude(record, offset)]>>

\* gps_candidates after the loop over range(offset, stop).
CandidatesFrom(record, offset, stop, hist, region) ==
    LET found == SelectSeq(
                     [k \in 1..(stop - offset) |->
                         CandidateAt(record, offset + k - 1, hist, region)],
                     LAMBDA c : c # <<>>)
    IN  [k \in 1..Len(found) |-> found[k][1]]

find_gps_in_record(record, hist, region) ==
    IF Len(record) < 12 THEN <<>>
    ELSE CandidatesFrom(record, 4, Min(Len(record) - 8, 80), hist, region)

-----------------------------------------------------------------------------
(* Known-Schema Decoder and Telemetry Decoder.  A decoder returns <<>> for  *)
(* None and <<d>> for the dict d.  A dict is a record; a key the dict does  *)
(* not have is <<>>, a key it has is <<value>> (counter, record_pos).       *)

IsAbsoluteTag(record) == record[2] = 35 /\ record[3] = 82    \* 0x23 0x52
IsRelativeTag(record) == record[2] = 39 /\ record[3] = 82    \* 0x27 0x52
IsKSTag(record) == Slice(record, 1, 3) = <<75, 83>>           \* b'KS'

parse_known_gps_absolute(record) ==
    IF Len(record) < 36 THEN <<>>
    ELSE IF ~IsAbsoluteTag(record) THEN <<>>
    ELSE LET counter   == UnpackI(Slice(record, 4, 8))
             latitude  == UnpackF(Slice(record, 24, 28))
             longitude == UnpackF(Slice(record, 28, 32))
             altitude  == UnpackF(Slice(record, 32, 36))
         IN  IF ~is_valid_coordinate(latitude, longitude) THEN <<>>
             ELSE <<[source |-> "KNOWN_TYPE", type_hex |-> Slice(record, 1, 4),
                     counter |-> <<counter>>, latitude |-> latitude,
                     longitude |-> longitude, altitude |-> altitude,
                     record_offset |-> 24, record_pos |-> <<>>]>>

parse_known_gps_relative(record) ==
    IF Len(record) < 40 THEN <<>>
    ELSE IF ~IsRelativeTag(record) THEN <<>>
    ELSE <<[source |-> "KNOWN_RELATIVE", type_hex |-> Slice(record, 1, 4),
            counter |-> <<UnpackI(Slice(record, 4, 8))>>,
            x |-> UnpackF(Slice(record, 20, 24)),
            y |-> UnpackF(Slice(record, 24, 28)),
            z |-> UnpackF(Slice(record, 28, 32)),
            record_offset |-> 20]>>

parse_ks_telemetry(record) ==
    IF Len(record) < 77 THEN <<>>
    ELSE IF ~IsKSTag(record) THEN <<>>
    ELSE <<[counter |-> UnpackI(Slice(record, 4, 8)),
            param1 |-> UnpackF(Slice(record, 32, 36)),
            param2 |-> UnpackF(Slice(record, 36, 40)),
            param3 |-> UnpackF(Slice(record, 40, 44))]>>

-----------------------------------------------------------------------------
(* parse_all, one action per loop iteration.  "\E v \in {e} :" names the    *)
(* value of e, as a local variable of the code does.                       *)

\* type_hex.startswith(('2352', '2752')) on the bytes behind the hex string.
\* A variant of StartsWithKnownTag: the second loop skips no record type.
StartsWithNoTag(type_hex) == FALSE

\* type_hex.startswith('2352') or type_hex.startswith('2752')
StartsWithKnownTag(type_hex) ==
    Len(type_hex) >= 2
    /\ (SubSeq(type_hex, 1, 2) = <<35, 82>> \/ SubSeq(type_hex, 1, 2) = <<39, 82>>)

\* A variant of append that puts the item first.
insert_first(list, item) == <<item>> \o list

\* list.append(item), for self.gps_all (and the record offsets kept beside it).
append(list, item) == Append(list, item)

\* A variant of Best: the last candidate.
BestLast(gps_candidates) == gps_candidates[Len(gps_candidates)]

\* best = gps_candidates[0]
Best(gps_candidates) == gps_candidates[1]

\* The refresh period of the region estimate in the second loop.
RefreshEvery == 100

\* A variant of RefreshDue that counts the discovered points only (the one
\* being appended included).
RefreshDueDiscovered(history) == (Len(gps_discovered) + 1) % RefreshEvery = 0

\* len(self.coord_history) % 100 == 0
RefreshDue(history) == Len(history) % RefreshEvery = 0

\* A variant of Phase1Done: the first loop stops after one record.
Phase1DoneAfterOne == idx > Min(1, Len(records))

\* The first loop over self.records is over.
Phase1Done == idx > Len(records)

\* self.records = self.find_records()
FindRecords ==
    /\ pc = "start"
    /\ records' = find_records(data)
    /\ pc' = "phase1"
    /\ idx' = 1
    /\ UNCHANGED <<data, gps_known, gps_discovered, gps_all, telemetry,
                   coord_history, region_center, gps_pos, region_pos,
                   csv_rows, csv_done, kml>>

\* One iteration of the first loop over self.records (known GPS types).
Phase1Step ==
    /\ pc = "phase1"
    /\ ~Phase1Done
    /\ LET pos    == records[idx].pos
           record == records[idx].rec
       IN  IF Len(record) < 4
           THEN UNCHANGED <<gps_known, gps_all, coord_history, gps_pos>>
           ELSE IF IsAbsoluteTag(record)
           THEN \E gps \in {parse_known_gps_absolute(record)} :
                    IF gps # <<>>
                    THEN /\ gps_known' = Append(gps_known, gps[1])
                         /\ gps_all' = append(gps_all, gps[1])
                         /\ coord_history' =
                              Append(coord_history, <<gps[1].latitude, gps[1].longitude>>)
                         /\ gps_pos' = append(gps_pos, pos)
                    ELSE UNCHANGED <<gps_known, gps_all, coord_history, gps_pos>>
           ELSE IF IsRelativeTag(record)
           THEN LET gps == parse_known_gps_relative(record)
                IN  /\ gps_known' = IF gps # <<>> THEN Append(gps_known, gps[1])
                                    ELSE gps_known
                    /\ UNCHANGED <<gps_all, coord_history, gps_pos>>
           ELSE UNCHANGED <<gps_known, gps_all, coord_history, gps_pos>>
    /\ idx' = idx + 1
    /\ UNCHANGED <<data, records, gps_discovered, telemetry, region_center, pc,
                   region_pos, csv_rows, csv_done, kml>>

\* Between the loops: the region estimate from the known coordinates.
Phase1End ==
    /\ pc = "phase1"
    /\ Phase1Done
    /\ IF Len(coord_history) > 0
       THEN /\ region_center' = update_region_center(coord_history, region_center)
            /\ region_pos' = {gps_pos[i] : i \in 1..Len(gps_pos)}
       ELSE UNCHANGED <<region_center, region_pos>>
    /\ pc' = "phase2"
    /\ idx' = 1
    /\ UNCHANGED <<data, records, gps_known, gps_discovered, gps_all, telemetry,
                   coord_history, gps_pos, csv_rows, csv_done, kml>>

\* One iteration of the second loop over self.records (the other types).
Phase2Step ==
    /\ pc = "phase2"
    /\ idx <= Len(records)
    /\ LET pos      == records[idx].pos
           record   == records[idx].rec
           type_hex == Slice(record, 1, Min(4, Len(record)))
       IN  IF Len(record) < 4
           THEN UNCHANGED <<gps_discovered, gps_all, coord_history, gps_pos,
                            telemetry, region_center, region_pos>>
           ELSE IF StartsWithKnownTag(type_hex)
           THEN UNCHANGED <<gps_discovered, gps_all, coord_history, gps_pos,
                            telemetry, region_center, region_pos>>
           ELSE IF IsKSTag(record)
           THEN LET tel == parse_ks_telemetry(record)
                IN  /\ telemetry' = IF tel # <<>> THEN Append(telemetry, tel[1])
                                    ELSE telemetry
                    /\ UNCHANGED <<gps_discovered, gps_all, coord_history, gps_pos,
                                   region_center, region_pos>>
           ELSE \E gps_candidates \in
                        {find_gps_in_record(record, coord_history, region_center)} :
                    IF gps_candidates # <<>>
                    THEN LET best == Best(gps_candidates)
                             d == [source |-> "DISCOVERED", type_hex |-> type_hex,
                                   counter |-> <<>>, latitude |-> best.latitude,
                                   longitude |-> best.longitude,
                                   altitude |-> best.altitude,
                                   record_offset |-> best.offset,
                                   record_pos |-> <<pos>>]
                         IN  /\ gps_discovered' = Append(gps_discovered, d)
                             /\ gps_all' = append(gps_all, d)
                             /\ coord_history' =
                                  Append(coord_history, <<best.latitude, best.longitude>>)
                             /\ gps_pos' = append(gps_pos, pos)
                             /\ IF RefreshDue(coord_history')
                                THEN /\ region_center' =
                                          update_region_center(coord_history', region_center)
                                     /\ region_pos' =
                                          {gps_pos'[i] : i \in 1..Len(gps_pos')}
                                ELSE UNCHANGED <<region_center, region_pos>>
                             /\ UNCHANGED telemetry
                    ELSE UNCHANGED <<gps_discovered, gps_all, coord_history, gps_pos,
                                     telemetry, region_center, region_pos>>
    /\ idx' = idx + 1
    /\ UNCHANGED <<data, records, gps_known, pc, csv_rows, csv_done, kml>>

\* parse_all returns.
Phase2End ==
    /\ pc = "phase2"
    /\ idx > Len(records)
    /\ pc' = "parsed"
    /\ UNCHANGED <<data, records, gps_known, gps_discovered, gps_all, telemetry,
                   coord_history, region_center, idx, gps_pos, region_pos,
                   csv_rows, csv_done, kml>>

-----------------------------------------------------------------------------
(* Trajectory Post-Processor.  coords are <<lon, lat, alt>> triples.       *)

\* Python's "x and x > 0" / "x > 0" on an altitude: a float above zero.
Positive(x) ==
    IF x.kind = "double" THEN x.mag > 0
    ELSE x.kind = "float" /\ FLt(F0, x)

\* A positive float32 altitude in units of 1/64 m, rounded up, capped at 2^29
\* (so a positive altitude stays positive and any sum of two fits).
AltNum(x) ==
    LET e  == Exp(x)
        sh == 144 - e
    IN  IF e >= 150 THEN 2^29
        ELSE IF sh <= 0 THEN Sig(x) * 2^(-sh)
        ELSE IF sh >= 25 THEN 1
        ELSE (Sig(x) + 2^sh - 1) \div 2^sh

\* (prev_alt + next_alt) / 2: a double, kept in units of 1/128 m.
Mean(prev_alt, next_alt) ==
    [kind |-> "double", neg |-> FALSE, mag |-> AltNum(prev_alt) + AltNum(next_alt)]

\* for j in range(i-1, max(0, i-20), -1): the first positive altitude, or None.
\* i and j are the code's 0-based indexes.
RECURSIVE PrevAlt(_, _, _)
PrevAlt(coords, j, stop) ==
    IF j <= stop THEN NoneVal
    ELSE IF Positive(coords[j + 1][3]) THEN coords[j + 1][3]
    ELSE PrevAlt(coords, j - 1, stop)

\* for j in range(i+1, min(len(coords), i+20)): the first positive altitude, or None.
RECURSIVE NextAlt(_, _, _)
NextAlt(coords, j, stop) ==
    IF j >= stop THEN NoneVal
    ELSE IF Positive(coords[j + 1][3]) THEN coords[j + 1][3]
    ELSE NextAlt(coords, j + 1, stop)

\* A variant of NeedsAltitude with alt < 0 for alt <= 0.
NeedsAltitudeBelowZero(alt) == IsNone(alt) \/ FLt(alt, F0)

\* if alt is None or alt <= 0
NeedsAltitude(alt) == IsNone(alt) \/ FLe(alt, F0)

\* The altitude interpolate_altitude gives the point at 0-based index i.
InterpolatedAlt(coords, i) ==
    LET alt == coords[i + 1][3]
    IN  IF NeedsAltitude(alt)
        THEN LET prev_alt == PrevAlt(coords, i - 1, Max(0, i - 20))
                 next_alt == NextAlt(coords, i + 1, Min(Len(coords), i + 20))
             IN  IF ~IsNone(prev_alt) /\ ~IsNone(next_alt) THEN Mean(prev_alt, next_alt)
                 ELSE IF ~IsNone(prev_alt) THEN prev_alt
                 ELSE IF ~IsNone(next_alt) THEN next_alt
                 ELSE F100
        ELSE alt

interpolate_altitude(coords) ==
    [k \in 1..Len(coords) |->
        <<coords[k][1], coords[k][2], InterpolatedAlt(coords, k - 1)>>]

\* The centroid of the middle third, <<center_lat, center_lon>> in units of 10^-5 degree.
Centroid(middle_coords) ==
    LET n == Len(middle_coords)
    IN  << SumSeq([k \in 1..n |-> Deg5(middle_coords[k][2])]) \div n,
           SumSeq([k \in 1..n |-> Deg5(middle_coords[k][1])]) \div n >>

\* coords[len(coords)//3 : 2*len(coords)//3]
MiddleThird(coords) == Slice(coords, Len(coords) \div 3, (2 * Len(coords)) \div 3)

DistToCenter(c, center) ==
    calculate_distance(Deg5(c[2]), Deg5(c[1]), center[1], center[2])

\* dist < 30 for each point of coords
Near(coords, center) ==
    [c \in {center} |->
        Tab([k \in 1..Len(coords) |-> DistToCenter(coords[k], c) < Km(30)])][center]

\* A variant of FirstNear that answers len(coords) when no point is near.
FirstNearOrEnd(near) ==
    IF \E i \in 1..Len(near) : near[i]
    THEN (CHOOSE i \in 1..Len(near) : near[i] /\ \A j \in 1..(i - 1) : ~near[j]) - 1
    ELSE Len(near)

\* The scan of find_real_start_point: the 0-based index of the first point
\* that is near, 0 when there is none; near[k] says whether point k is near.
FirstNear(near) ==
    IF \E i \in 1..Len(near) : near[i]
    THEN (CHOOSE i \in 1..Len(near) : near[i] /\ \A j \in 1..(i - 1) : ~near[j]) - 1
    ELSE 0

find_real_start_point(coords) ==
    IF Len(coords) < 20 THEN 0
    ELSE LET middle_coords == MiddleThird(coords)
         IN  IF middle_coords = <<>> THEN 0
             ELSE FirstNear(Near(coords, Centroid(middle_coords)))

\* The "extra protection" of export_trajectory_kml: the start index after it.
ForcedStart(raw_coords, start_idx) ==
    IF start_idx < 5 /\ Len(raw_coords) > 50
    THEN LET middle_coords == MiddleThird(raw_coords)
         IN  IF middle_coords # <<>>
             THEN LET center   == Centroid(middle_coords)
                      outliers == Cardinality(
                          {i \in 0..(Min(10, Len(raw_coords)) - 1) :
                              DistToCenter(raw_coords[i + 1], center) > Km(30)})
                  IN  IF outliers > 5 THEN 10 ELSE start_idx
             ELSE start_idx
    ELSE start_idx

-----------------------------------------------------------------------------
(* Exporters *)

\* A variant of CsvRow that writes 100.0 for an altitude that is missing or <= 0.
CsvRowFilled(gps) ==
    [source |-> <<gps.source>>, type_hex |-> <<gps.type_hex>>,
     latitude |-> <<gps.latitude>>, longitude |-> <<gps.longitude>>,
     altitude |-> IF NeedsAltitude(gps.altitude) THEN <<F100>> ELSE <<gps.altitude>>,
     counter |-> gps.counter, record_offset |-> <<gps.record_offset>>]

\* A CSV cell: <<>> is the empty string, <<v>> the value v.
CsvRow(gps) ==
    [source |-> <<gps.source>>, type_hex |-> <<gps.type_hex>>,
     latitude |-> <<gps.latitude>>, longitude |-> <<gps.longitude>>,
     altitude |-> IF IsNone(gps.altitude) THEN <<>> ELSE <<gps.altitude>>,
     counter |-> gps.counter, record_offset |-> <<gps.record_offset>>]

export_all_gps_csv ==
    /\ pc = "parsed"
    /\ ~csv_done
    /\ csv_rows' = [k \in 1..Len(gps_all) |-> CsvRow(gps_all[k])]
    /\ csv_done' = TRUE
    /\ UNCHANGED <<data, records, gps_known, gps_discovered, gps_all, telemetry,
                   coord_history, region_center, pc, idx, gps_pos, region_pos, kml>>

NoKml == [done |-> FALSE, written |-> FALSE, start_idx |-> 0, coords |-> <<>>]

\* raw_coords of export_trajectory_kml.
RawCoords(all) == [k \in 1..Len(all) |-> <<all[k].longitude, all[k].latitude, all[k].altitude>>]

\* The start index export_trajectory_kml trims at.
StartIdx(raw_coords) == ForcedStart(raw_coords, find_real_start_point(raw_coords))

\* raw_coords[start_idx:] when start_idx > 0
Trim(raw_coords, start_idx) ==
    IF start_idx > 0 THEN Slice(raw_coords, start_idx, Len(raw_coords)) ELSE raw_coords

export_trajectory_kml ==
    /\ pc = "parsed"
    /\ ~kml.done
    /\ \E raw_coords \in {RawCoords(gps_all)} :
           IF raw_coords = <<>>
           THEN kml' = [NoKml EXCEPT !.done = TRUE]
           ELSE \E start_idx \in {StartIdx(raw_coords)} :
                \E coords \in {interpolate_altitude(Trim(raw_coords, start_idx))} :
                    IF coords = <<>>
                    THEN kml' = [NoKml EXCEPT !.done = TRUE, !.start_idx = start_idx]
                    ELSE kml' = [done |-> TRUE, written |-> TRUE,
                                 start_idx |-> start_idx, coords |-> coords]
    /\ UNCHANGED <<data, records, gps_known, gps_discovered, gps_all, telemetry,
                   coord_history, region_center, pc, idx, gps_pos, region_pos,
                   csv_rows, csv_done>>

-----------------------------------------------------------------------------
(* Input files.  A file is up to MaxRecords records drawn freely from      *)
(* RecordTemplates, or a preamble followed by up to MaxTail such records.  *)

MaxRecords == 2
MaxTail == 1

Zeros(n) == [k \in 1..n |-> 0]

RECURSIVE Concat(_)
Concat(ss) == IF ss = <<>> THEN <<>> ELSE Head(ss) \o Concat(Tail(ss))

Repeat(n, s) == Concat([k \in 1..n |-> s])

\* float32 literals used in the input files
LatB   == Flt(FALSE, 1113522176)   \* 55.75
LonB   == Flt(FALSE, 1108770816)   \* 37.625
LatB2  == Flt(FALSE, 1113524797)   \* 55.76 (1.2 km from B)
LonB2  == Flt(FALSE, 1108772127)   \* 37.63
LatN   == Flt(FALSE, 1113617334)   \* 56.113 (40 km north of B)
LatA   == Flt(FALSE, 1114065076)   \* 57.821 (230 km north of B)
Tiny   == Flt(FALSE, 1000593162)   \* 0.005
Half   == Flt(FALSE, 1056964608)   \* 0.5
Lat95  == Flt(FALSE, 1119748096)   \* 95.0
Alt150 == Flt(FALSE, 1125515264)   \* 150.0
Alt120 == Flt(FALSE, 1123024896)   \* 120.0
AltM20 == Flt(TRUE, 1101004800)    \* -20.0
AltBig == Flt(FALSE, 1184645120)   \* 20000.0
AltNaN == Flt(FALSE, 2143289344)   \* nan

\* An absolute-GPS record (tag 0x23 0x52), 36 bytes.
AbsRecord(counter, lat, lon, alt) ==
    <<Delim, 35, 82, 0, counter, 0, 0, 0>> \o Zeros(16)
        \o PackF(lat) \o PackF(lon) \o PackF(alt)

\* A relative-position record (tag 0x27 0x52), 40 bytes: x, y, z at 20, 24, 28.
RelRecord(counter, x, y, z) ==
    <<Delim, 39, 82, 0, counter, 0, 0, 0>> \o Zeros(12)
        \o PackF(x) \o PackF(y) \o PackF(z) \o Zeros(8)

\* A telemetry record (tag 'KS'), 77 bytes: parameters at 32, 36, 40.
KSRecord(counter, p1, p2, p3) ==
    <<Delim, 75, 83, 0, counter, 0, 0, 0>> \o Zeros(24)
        \o PackF(p1) \o PackF(p2) \o PackF(p3) \o Zeros(33)

\* A record of an undocumented type (tag 0x31 0x52): body after the 4-byte header.
UnkRecord(body) == <<Delim, 49, 82, 0>> \o body

RecordTemplates ==
    { AbsRecord(1, LatB, LonB, Alt150),          \* a known point at B
      AbsRecord(2, LatB2, LonB2, F0),            \* a known point near B, altitude 0
      AbsRecord(3, LatA, LonB, AltBig),          \* a known point at A, altitude 20000
      AbsRecord(4, Tiny, Tiny, Alt150),          \* null-coordinate sentinel
      AbsRecord(5, Lat95, LonB, AltNaN),         \* latitude out of range
      SubSeq(AbsRecord(6, LatB, LonB, Alt150), 1, 35),   \* truncated: 35 bytes
      RelRecord(7, LatB, LonB, Alt150),          \* x, y look like B
      KSRecord(8, LatB, LonB, Alt150),           \* parameters look like B
      SubSeq(KSRecord(9, LatB, LonB, Alt150), 1, 76),    \* truncated: 76 bytes
      \* B at offset 8, altitude 120
      UnkRecord(Zeros(4) \o PackF(LatB) \o PackF(LonB) \o PackF(Alt120)),
      \* A at offset 6 (altitude 20000), then B2 at offset 18 (altitude -20)
      UnkRecord(Zeros(2) \o PackF(LatA) \o PackF(LonB) \o PackF(AltBig)
                \o PackF(LatB2) \o PackF(LonB2) \o PackF(AltM20) \o Zeros(2)),
      \* (0.005, 0.005) at offset 4 and (0.5, 0.5) at offset 12
      UnkRecord(PackF(Tiny) \o PackF(Tiny) \o PackF(Half) \o PackF(Half) \o Zeros(4)),
      \* N at offset 79, the last scanned offset, with no room for an altitude
      UnkRecord(Zeros(75) \o PackF(LatN) \o PackF(LonB) \o <<0>>),
      \* B at offset 80, past the scanned range
      UnkRecord(Zeros(76) \o PackF(LatB) \o PackF(LonB) \o PackF(Alt150) \o Zeros(4)),
      \* B in the last 8 bytes of a 16-byte record
      UnkRecord(Zeros(4) \o PackF(LatB) \o PackF(LonB)),
      <<Delim, 49>> }                            \* too short to classify

\* Eleven known points, six at A then five at B: the region estimate becomes A
\* while the recent history holds both.
Burst == Repeat(6, AbsRecord(10, LatA, LonB, Alt150))
             \o Repeat(5, AbsRecord(11, LatB, LonB, Alt150))

\* Eleven known points, one at B then ten at A: B has left the recent history,
\* which holds A only, as does the region estimate.
BurstAway == AbsRecord(14, LatB, LonB, Alt150)
                 \o Repeat(10, AbsRecord(15, LatA, LonB, Alt150))

Preambles == { <<>>, <<0, 17>>, Burst, BurstAway }

Init ==
    /\ \E pre \in Preambles, n \in 0..MaxRecords :
         /\ pre # <<>> => n <= MaxTail
         /\ \E choice \in [1..n -> RecordTemplates] :
               data = pre \o Concat(choice)
    /\ records = <<>>
    /\ gps_known = <<>>
    /\ gps_discovered = <<>>
    /\ gps_all = <<>>
    /\ telemetry = <<>>
    /\ coord_history = <<>>
    /\ region_center = <<>>
    /\ pc = "start"
    /\ idx = 0
    /\ gps_pos = <<>>
    /\ region_pos = {}
    /\ csv_rows = <<>>
    /\ csv_done = FALSE
    /\ kml = NoKml

Next ==
    \/ FindRecords
    \/ Phase1Step
    \/ Phase1End
    \/ Phase2Step
    \/ Phase2End
    \/ export_all_gps_csv
    \/ export_trajectory_kml

Spec == Init /\ [][Next]_vars

-----------------------------------------------------------------------------
(* The exporters on long point sequences.  The states parse_all can end in *)
(* are drawn directly: known points first (phase 1), discovered points     *)
(* after them (phase 2); a discovered point has no altitude or one inside  *)
(* (-500, 10000) and lies within 50 km of the point before it; a known     *)
(* point may lie anywhere and carries whatever its altitude field held.    *)
(* The file itself is not kept in these states: the exporters read gps_all *)
(* only.                                                                   *)

MaxPoints == 52      \* longest sequence
MaxShort == 4        \* sequences up to this length take every mix of altitudes
MaxGap == 22         \* longest distance between two positive altitudes

KnownEntry(k, lat, lon, alt) ==
    [source |-> "KNOWN_TYPE", type_hex |-> <<35, 82, 0>>, counter |-> <<k>>,
     latitude |-> lat, longitude |-> lon, altitude |-> alt,
     record_offset |-> 24, record_pos |-> <<>>]

DiscoveredEntry(k, lat, lon, alt) ==
    [source |-> "DISCOVERED", type_hex |-> <<49, 82, 0>>, counter |-> <<>>,
     latitude |-> lat, longitude |-> lon, altitude |-> alt,
     record_offset |-> 8, record_pos |-> <<16 * (k - 1)>>]

\* n points, the first far ones at latitude farLat and the rest at B, with
\* altitude alts[k]; all known, or all discovered.
Points(n, far, farLat, alts, known) ==
    [k \in 1..n |->
        LET lat == IF k <= far THEN farLat ELSE LatB
        IN  IF known THEN KnownEntry(k, lat, LonB, alts[k])
            ELSE DiscoveredEntry(k, lat, LonB, alts[k])]

\* Altitudes of n points: 150 at p1, 120 at p2 (0 for "nowhere"), bad elsewhere.
TwoPositive(n, p1, p2, bad) ==
    [k \in 1..n |-> IF k = p1 THEN Alt150 ELSE IF k = p2 THEN Alt120 ELSE bad]

\* Short sequences take every mix of these altitudes.
AltKinds == {NoneVal, F0, AltM20, AltNaN, Alt150, Alt120}

\* The state parse_all ends in when it has found the points all.
Parsed(all) ==
    /\ gps_all = all
    /\ gps_known = SelectSeq(all, LAMBDA g : g.source = "KNOWN_TYPE")
    /\ gps_discovered = SelectSeq(all, LAMBDA g : g.source = "DISCOVERED")
    /\ coord_history = [k \in 1..Len(all) |-> <<all[k].latitude, all[k].longitude>>]
    /\ gps_pos = [k \in 1..Len(all) |-> 16 * (k - 1)]
    /\ region_center =
         LET known == SelectSeq(all, LAMBDA g : g.source = "KNOWN_TYPE")
         IN  update_region_center(
                 [k \in 1..Len(known) |-> <<known[k].latitude, known[k].longitude>>],
                 <<>>)
    /\ region_pos = {16 * (k - 1) :
                        k \in {j \in 1..Len(all) : all[j].source = "KNOWN_TYPE"}}
    /\ data = <<>>
    /\ records = <<>>
    /\ telemetry = <<>>
    /\ pc = "parsed"
    /\ idx = 1
    /\ csv_rows = <<>>
    /\ csv_done = FALSE
    /\ kml = NoKml

\* Lengths around the thresholds of the trimmer (20 points, 50 points).
Lengths == {1, 2, 19, 20, 21, 30, 50, 51, MaxPoints}

\* Start trimming: every length of a far prefix.
InitTrim ==
    \E n \in Lengths, known \in BOOLEAN :
      \E far \in 0..n :
        \E all \in {Points(n, far, IF known THEN LatA ELSE LatN,
                            [k \in 1..n |-> F0], known)} : Parsed(all)

\* Altitude interpolation on long sequences: two positive altitudes, the first
\* at index 0 or 1 of the code and the second up to MaxGap positions later or
\* at the end, and one kind of unusable altitude elsewhere.
InitGap ==
    \E bad \in {NoneVal, F0, AltM20, AltNaN} :
      \E p1 \in 0..2, p2 \in 0..MaxPoints, far \in {0, 6} :
        /\ p2 = 0 \/ (p2 > p1 /\ p2 <= p1 + MaxGap) \/ p2 = MaxPoints
        /\ \E all \in {Points(MaxPoints, far, LatN,
                              TwoPositive(MaxPoints, p1, p2, bad),
                              bad # NoneVal)} : Parsed(all)

\* Short sequences with every mix of altitudes; a point with no altitude is a
\* discovered one, and so is every point after it.
InitShort ==
    \E n \in 1..MaxShort :
      \E alts \in [1..n -> AltKinds] :
        /\ \A j, k \in 1..n : (j < k /\ alts[j] = NoneVal) => alts[k] # AltNaN
        /\ Parsed([k \in 1..n |->
                     IF \E j \in 1..k : alts[j] = NoneVal
                     THEN DiscoveredEntry(k, LatB, LonB, alts[k])
                     ELSE KnownEntry(k, LatB, LonB, alts[k])])

InitExport == InitTrim \/ InitGap \/ InitShort

NextExport ==
    \/ export_all_gps_csv
    \/ export_trajectory_kml

SpecExport == InitExport /\ [][NextExport]_vars

-----------------------------------------------------------------------------
(* Long flights.  The refresh of the region estimate in the second loop    *)
(* needs a coordinate history as long as its period, so these runs start   *)
(* where find_records has just returned the records of a file of knownCnt  *)
(* absolute-GPS records at B followed by discCnt records of an             *)
(* undocumented type that carry B at offset 8.                             *)

\* An absolute-GPS record at B, and a record of an undocumented type with B at
\* offset 8 (altitude 120).
KnownB == AbsRecord(12, LatB, LonB, Alt150)
UnkB == UnkRecord(Zeros(4) \o PackF(LatB) \o PackF(LonB) \o PackF(Alt120))

\* n copies of the record s, one after the other.
Times(n, s) == Tab([i \in 1..(n * Len(s)) |-> s[((i - 1) % Len(s)) + 1]])

LongData(knownCnt, discCnt) == Times(knownCnt, KnownB) \o Times(discCnt, UnkB)

\* What find_records returns on LongData(knownCnt, discCnt).
LongRecords(knownCnt, discCnt) ==
    Tab([j \in 1..(knownCnt + discCnt) |->
            IF j <= knownCnt
            THEN [pos |-> Len(KnownB) * (j - 1), rec |-> KnownB]
            ELSE [pos |-> Len(KnownB) * knownCnt + Len(UnkB) * (j - knownCnt - 1),
                  rec |-> UnkB]])

\* Numbers of known and of discovered points around the refresh period: none,
\* one, one short of a period and a full period of known points.
LongShapes ==
    { <<0, RefreshEvery + 1>>, <<1, RefreshEvery>>,
      <<RefreshEvery - 1, 2>>, <<RefreshEvery, 1>> }

InitRefresh ==
    /\ \E shape \in LongShapes :
         /\ data = LongData(shape[1], shape[2])
         /\ records = LongRecords(shape[1], shape[2])
    /\ gps_known = <<>>
    /\ gps_discovered = <<>>
    /\ gps_all = <<>>
    /\ telemetry = <<>>
    /\ coord_history = <<>>
    /\ region_center = <<>>
    /\ pc = "phase1"
    /\ idx = 1
    /\ gps_pos = <<>>
    /\ region_pos = {}
    /\ csv_rows = <<>>
    /\ csv_done = FALSE
    /\ kml = NoKml

NextRefresh ==
    \/ Phase1Step
    \/ Phase1End
    \/ Phase2Step
    \/ Phase2End

SpecRefresh == InitRefresh /\ [][NextRefresh]_vars

-----------------------------------------------------------------------------
(* update_region_center on its own: a parser whose coordinate history      *)
(* holds up to MaxHistory of the points below, in any order and with       *)
(* repetitions, and whose region estimate is still absent or was computed  *)
(* earlier (absent when the history is empty).                             *)

MaxHistory == 4

\* Valid coordinates on both sides of the equator and of the prime meridian;
\* latitudes and longitudes repeat across points.
HistoryPoints ==
    { <<FNeg(LatB), LonB2>>, <<LatB, FNeg(LonB)>>, <<LatB2, LonB>>,
      <<LatN, LonB2>>, <<LatB, LonB>> }

InitRegion ==
    /\ \E n \in 0..MaxHistory :
         \E hist \in [1..n -> HistoryPoints] : coord_history = hist
    /\ region_center \in {<<>>} \cup (IF coord_history = <<>> THEN {} ELSE {<<LatA, LonB>>})
    /\ data = <<>>
    /\ records = <<>>
    /\ gps_known = <<>>
    /\ gps_discovered = <<>>
    /\ gps_all = <<>>
    /\ telemetry = <<>>
    /\ pc = "region"
    /\ idx = 0
    /\ gps_pos = <<>>
    /\ region_pos = {}
    /\ csv_rows = <<>>
    /\ csv_done = FALSE
    /\ kml = NoKml

\* A call of self.update_region_center().
UpdateRegionCenter ==
    /\ pc = "region"
    /\ region_center' = update_region_center(coord_history, region_center)
    /\ pc' = "region_done"
    /\ UNCHANGED <<data, records, gps_known, gps_discovered, gps_all, telemetry,
                   coord_history, idx, gps_pos, region_pos, csv_rows, csv_done, kml>>

NextRegion == UpdateRegionCenter

SpecRegion == InitRegion /\ [][NextRegion]_vars

-----------------------------------------------------------------------------
(* find_records on its own: every buffer of up to MaxBuffer bytes over a    *)
(* small alphabet that holds the delimiter.                                *)

MaxBuffer == 6

BufferBytes == {0, 35, Delim}

InitFramer ==
    /\ \E n \in 0..MaxBuffer : data \in [1..n -> BufferBytes]
    /\ records = <<>>
    /\ gps_known = <<>>
    /\ gps_discovered = <<>>
    /\ gps_all = <<>>
    /\ telemetry = <<>>
    /\ coord_history = <<>>
    /\ region_center = <<>>
    /\ pc = "start"
    /\ idx = 0
    /\ gps_pos = <<>>
    /\ region_pos = {}
    /\ csv_rows = <<>>
    /\ csv_done = FALSE
    /\ kml = NoKml

NextFramer == FindRecords

SpecFramer == InitFramer /\ [][NextFramer]_vars

-----------------------------------------------------------------------------
(* Properties *)

\* The point of gps_all behind the k-th point of the exported trajectory.
Given(k) == gps_all[kml.start_idx + k]

\* A float or double above zero (NaN is not).
AboveZero(a) ==
    /\ a.kind \in {"float", "double"}
    /\ ~a.neg
    /\ a.mag > 0
    /\ a.kind = "float" => a.mag <= InfBits

\* C1: every point of the exported trajectory has altitude > 0, whether the
\* point it comes from carries no altitude, a zero, a negative or a positive
\* one (any altitude but NaN, which is none of these).
C1_ExportedAltitudePositive ==
    kml.written =>
        \A k \in 1..Len(kml.coords) :
            ~IsNaN(Given(k).altitude) => AboveZero(kml.coords[k][3])

\* A trajectory is exported from points without altitude, with altitude zero,
\* with a negative and with a positive altitude.
C1_MixedAltitudesExported ==
    /\ kml.written
    /\ \E k \in 1..Len(kml.coords) : IsNone(Given(k).altitude)
    /\ \E k \in 1..Len(kml.coords) : Given(k).altitude = F0
    /\ \E k \in 1..Len(kml.coords) : Given(k).altitude = AltM20
    /\ \E k \in 1..Len(kml.coords) : Given(k).altitude = Alt150

\* The entries of gps_all that come from absolute-GPS records / from the locator.
IsKnown(i) == gps_all[i].source = "KNOWN_TYPE"
IsDiscovered(i) == gps_all[i].source = "DISCOVERED"

\* C2 as stated: an entry that comes earlier in gps_all was extracted from a
\* record that starts at a smaller byte offset in the file.
C2_FileOrder ==
    \A i, j \in 1..Len(gps_all) : i < j => gps_pos[i] < gps_pos[j]

\* C2, amended: gps_all holds the entries of the absolute-GPS records in file
\* order, followed by the discovered entries in file order.
C2_KnownThenDiscovered ==
    \A i, j \in 1..Len(gps_all) :
        i < j => /\ IsDiscovered(i) => IsDiscovered(j)
                 /\ IsKnown(i) = IsKnown(j) => gps_pos[i] < gps_pos[j]

\* parse_all has returned and gps_all holds a discovered entry after the entry
\* of an absolute-GPS record that starts later in the file.
C2_DiscoveredBeforeKnownInFile ==
    /\ pc = "parsed"
    /\ \E i, j \in 1..Len(gps_all) :
          i < j /\ IsKnown(i) /\ IsDiscovered(j) /\ gps_pos[i] > gps_pos[j]

\* The step of the second loop in which the locator validates a candidate.
Validates == pc = "phase2" /\ Len(gps_discovered') > Len(gps_discovered)

\* The file offsets of the records behind the coordinate history.
HistoryPos == {gps_pos[i] : i \in 1..Len(gps_pos)}

\* C3 as stated: when the locator validates a candidate from the record at
\* file offset p, the coordinate history and the region estimate it consults
\* were built only from records that start before p.
C3_ForwardOnly ==
    [][Validates =>
          /\ \A q \in HistoryPos : q < records[idx].pos
          /\ \A q \in region_pos : q < records[idx].pos]_vars

\* C3, amended: when the locator validates a candidate from the record at file
\* offset p, the history it consults holds every accepted absolute-GPS record
\* of the whole file, before p or after it, and besides these only discovered
\* samples of records before p; the region estimate was built from records of
\* that history.
C3_KnownOfWholeFileFirst ==
    [][Validates =>
          /\ \A r \in 1..Len(records) :
                (/\ Len(records[r].rec) >= 4
                 /\ IsAbsoluteTag(records[r].rec)
                 /\ parse_known_gps_absolute(records[r].rec) # <<>>)
                    => records[r].pos \in HistoryPos
          /\ \A i \in 1..Len(gps_pos) : IsKnown(i) \/ gps_pos[i] < records[idx].pos
          /\ region_pos \subseteq HistoryPos]_vars

\* The locator has validated a candidate of a record while the region estimate
\* and the history held an absolute-GPS record that starts later in the file.
C3_ValidatedAgainstLaterRecord ==
    \E j \in 1..Len(gps_all) :
        /\ IsDiscovered(j)
        /\ \E q \in region_pos : q > gps_pos[j]
        /\ \E i \in 1..Len(gps_all) : i < j /\ IsKnown(i) /\ gps_pos[i] > gps_pos[j]

\* |x| <= bound and |x| < bound for a float x (NaN is neither).
MagLe(x, bound) == x.kind = "float" /\ x.mag <= bound.mag
MagLt(x, bound) == x.kind = "float" /\ x.mag < bound.mag

\* C4: every entry of gps_all has latitude in [-90, 90], longitude in
\* [-180, 180] and not both within 0.01 of zero; (0.005, 0.005) is never there.
C4_CoordinatesValid ==
    \A i \in 1..Len(gps_all) :
        /\ MagLe(gps_all[i].latitude, F90)
        /\ MagLe(gps_all[i].longitude, F180)
        /\ ~(MagLt(gps_all[i].latitude, F0_01) /\ MagLt(gps_all[i].longitude, F0_01))
        /\ ~(gps_all[i].latitude = Tiny /\ gps_all[i].longitude = Tiny)

\* The pair (lat, lon) is stored at offset of the record at index r.
PairAt(r, offset, lat, lon) ==
    /\ Len(records[r].rec) >= offset + 8
    /\ UnpackF(Slice(records[r].rec, offset, offset + 4)) = lat
    /\ UnpackF(Slice(records[r].rec, offset + 4, offset + 8)) = lon

\* parse_all has returned on a file that holds (0.005, 0.005) in the coordinate
\* field of a full-length absolute-GPS record and at the first scanned offset
\* of a record handed to the locator.
C4_SentinelsRejected ==
    /\ pc = "parsed"
    /\ \E r \in 1..Len(records) :
          IsAbsoluteTag(records[r].rec) /\ Len(records[r].rec) >= 36
              /\ PairAt(r, 24, Tiny, Tiny)
    /\ \E r \in 1..Len(records) :
          records[r].rec[2] = 49 /\ PairAt(r, 4, Tiny, Tiny)

\* The record of the current iteration is handed to the heuristic locator.
HandedToLocator ==
    /\ pc = "phase2"
    /\ idx <= Len(records)
    /\ Len(records[idx].rec) >= 4
    /\ ~(records[idx].rec[2] \in {35, 39} /\ records[idx].rec[3] = 82)
    /\ ~(records[idx].rec[2] = 75 /\ records[idx].rec[3] = 83)

\* The offsets of the current record whose pair passes all the filters against
\* the history and region estimate held now.
PassingOffsets ==
    {o \in 4..(Min(Len(records[idx].rec) - 8, 80) - 1) :
        LET lat == UnpackF(Slice(records[idx].rec, o, o + 4))
            lon == UnpackF(Slice(records[idx].rec, o + 4, o + 8))
        IN  /\ is_valid_coordinate(lat, lon)
            /\ ~(MagLt(lat, F1) /\ MagLt(lon, F1))
            /\ is_geographically_coherent(coord_history, lat, lon, 50)
            /\ Len(coord_history) > 10 => is_in_reasonable_region(region_center, lat, lon)}

\* C5: a record handed to the locator adds at most one discovered sample, at
\* the lowest offset of [4, min(len-8, 80)) whose pair passes all the filters,
\* and nothing when no offset passes.
C5_LowestPassingOffset ==
    [][HandedToLocator =>
          IF PassingOffsets = {}
          THEN gps_discovered' = gps_discovered /\ gps_all' = gps_all
          ELSE /\ Len(gps_discovered') = Len(gps_discovered) + 1
               /\ Len(gps_all') = Len(gps_all) + 1
               /\ gps_all'[Len(gps_all')] = gps_discovered'[Len(gps_discovered')]
               /\ gps_discovered'[Len(gps_discovered')].record_offset \in PassingOffsets
               /\ \A o \in PassingOffsets :
                     gps_discovered'[Len(gps_discovered')].record_offset <= o]_vars

\* parse_all has returned with a sample discovered at offset 6 of a record that
\* holds a second pair, near B, at offset 18.
C5_FirstOfTwoCandidates ==
    /\ pc = "parsed"
    /\ \E i \in 1..Len(gps_discovered) : \E r \in 1..Len(records) :
          /\ gps_discovered[i].record_pos = <<records[r].pos>>
          /\ gps_discovered[i].record_offset = 6
          /\ gps_discovered[i].latitude = LatA
          /\ PairAt(r, 18, LatB2, LonB2)

\* C6: the start index of the trajectory export lies in [0, len), the trimmed
\* trajectory is non-empty and no longer than the point sequence, and with
\* fewer than 20 points the start index is 0.
C6_StartIndexInRange ==
    (kml.done /\ gps_all # <<>>) =>
        /\ kml.start_idx \in 0..(Len(gps_all) - 1)
        /\ kml.written
        /\ Len(kml.coords) = Len(gps_all) - kml.start_idx
        /\ Len(gps_all) < 20 => kml.start_idx = 0

\* An export of more than 50 points with the start index forced to 10, where
\* find_real_start_point answered an index below 5.
C6_StartForced ==
    /\ kml.written
    /\ Len(gps_all) > 50
    /\ kml.start_idx = 10
    /\ find_real_start_point(RawCoords(gps_all)) < 5

\* C7: an export changes no entry of gps_all, and the CSV holds one row per
\* entry of gps_all, in order, with the altitude the entry carries (empty
\* when it carries none), whichever export runs first.
C7_ExportsLeaveDataUnchanged ==
    [][/\ gps_all' = gps_all
       /\ csv_done' =>
             /\ Len(csv_rows') = Len(gps_all')
             /\ \A k \in 1..Len(gps_all') :
                   /\ csv_rows'[k].latitude = <<gps_all'[k].latitude>>
                   /\ csv_rows'[k].longitude = <<gps_all'[k].longitude>>
                   /\ csv_rows'[k].altitude =
                        IF gps_all'[k].altitude.kind = "none" THEN <<>>
                        ELSE <<gps_all'[k].altitude>>]_vars

\* Both exports have run, the trajectory was trimmed and its altitudes
\* interpolated, and the CSV has more rows than the trajectory has points.
C7_TrimmedAndInterpolated ==
    /\ csv_done
    /\ kml.written
    /\ kml.start_idx > 0
    /\ Len(csv_rows) > Len(kml.coords)
    /\ \E k \in 1..Len(kml.coords) : kml.coords[k][3] # Given(k).altitude

\* The record of the current iteration carries one of the three known tags.
TagAt(r) == <<records[r].rec[2], records[r].rec[3]>>
HasAbsoluteTag(r) == Len(records[r].rec) >= 4 /\ TagAt(r) = <<35, 82>>
HasRelativeTag(r) == Len(records[r].rec) >= 4 /\ TagAt(r) = <<39, 82>>
HasTelemetryTag(r) == Len(records[r].rec) >= 4 /\ TagAt(r) = <<75, 83>>

\* C8: a record with the absolute-GPS, the relative-position or the telemetry
\* tag is never scanned by the locator (the second loop adds nothing for it),
\* and a relative-position or telemetry record adds no entry to gps_all or to
\* the coordinate history in either loop.
C8_DispatchExclusive ==
    [][(pc \in {"phase1", "phase2"} /\ idx <= Len(records)) =>
          /\ (pc = "phase2" /\ (HasAbsoluteTag(idx) \/ HasRelativeTag(idx)
                                   \/ HasTelemetryTag(idx)))
                => /\ gps_discovered' = gps_discovered
                   /\ gps_all' = gps_all
                   /\ coord_history' = coord_history
          /\ (HasRelativeTag(idx) \/ HasTelemetryTag(idx))
                => /\ gps_all' = gps_all
                   /\ coord_history' = coord_history]_vars

\* parse_all has returned with nothing in gps_all on a file that holds an
\* absolute-GPS record too short to decode and a telemetry record, each with
\* the pair of B where the locator would scan.
C8_KnownTagsNotScanned ==
    /\ pc = "parsed"
    /\ gps_all = <<>>
    /\ \E r \in 1..Len(records) :
          HasAbsoluteTag(r) /\ Len(records[r].rec) < 36 /\ PairAt(r, 24, LatB, LonB)
    /\ \E r \in 1..Len(records) : HasTelemetryTag(r) /\ PairAt(r, 32, LatB, LonB)

\* An altitude that is absent or strictly between -500 and 10000.
AltitudeInRange(alt) ==
    \/ alt.kind = "none"
    \/ /\ alt.kind = "float"
       /\ alt.mag <= InfBits
       /\ IF alt.neg THEN alt.mag < F500.mag ELSE alt.mag < F10000.mag

\* C9 as stated: every sample of gps_all has an altitude that is absent or
\* strictly between -500 and 10000.
C9_AltitudeInRange ==
    \A i \in 1..Len(gps_all) : AltitudeInRange(gps_all[i].altitude)

\* C9, amended: every discovered sample has an altitude that is absent or
\* strictly between -500 and 10000; a sample of an absolute-GPS record carries
\* the float of its altitude field, whatever it is.
C9_DiscoveredAltitudeInRange ==
    /\ \A i \in 1..Len(gps_discovered) : AltitudeInRange(gps_discovered[i].altitude)
    /\ \A i \in 1..Len(gps_all) :
          IsKnown(i) =>
              \E r \in 1..Len(records) :
                  /\ records[r].pos = gps_pos[i]
                  /\ gps_all[i].altitude = UnpackF(Slice(records[r].rec, 32, 36))

\* A sample was discovered without altitude at offset 6 of a record that holds
\* 20000.0 after the pair, and gps_all holds a sample of an absolute-GPS record
\* with altitude 20000.0.
C9_OutOfRangeAltitudes ==
    /\ \E i \in 1..Len(gps_discovered) : \E r \in 1..Len(records) :
          /\ gps_discovered[i].record_pos = <<records[r].pos>>
          /\ gps_discovered[i].record_offset = 6
          /\ gps_discovered[i].altitude = NoneVal
          /\ UnpackF(Slice(records[r].rec, 14, 18)) = AltBig
    /\ \E i \in 1..Len(gps_all) : IsKnown(i) /\ gps_all[i].altitude = AltBig

\* The altitude C10 describes for the point at 0-based index i of coords: the
\* nearest positive altitude among the 20 positions before i, index 0
\* included, and among the 20 positions after i.
DescribedAlt(coords, i) ==
    LET alt == coords[i + 1][3]
    IN  IF IsNone(alt) \/ FLe(alt, F0)
        THEN LET prev_alt == PrevAlt(coords, i - 1, Max(-1, i - 21))
                 next_alt == NextAlt(coords, i + 1, Min(Len(coords), i + 21))
             IN  IF ~IsNone(prev_alt) /\ ~IsNone(next_alt) THEN Mean(prev_alt, next_alt)
                 ELSE IF ~IsNone(prev_alt) THEN prev_alt
                 ELSE IF ~IsNone(next_alt) THEN next_alt
                 ELSE F100
        ELSE alt

\* C10 as stated: each exported altitude that replaces a missing or
\* non-positive one is the mean of the nearest positive altitudes within 20
\* positions before (down to index 0) and after, the one that exists, or 100.0
\* when neither exists; for the altitudes 150 and 0 the second becomes 150.
C10_NearestWithinTwenty ==
    kml.written =>
        \A k \in 1..Len(kml.coords) :
            kml.coords[k][3] =
                DescribedAlt(Trim(RawCoords(gps_all), kml.start_idx), k - 1)

-----------------------------------------------------------------------------
(* C11 *)

\* The step recomputes the region estimate: the set of records behind it
\* changes (a refresh in the second loop always takes in the record just
\* accepted).
RegionRefreshed == region_pos' # region_pos

\* The step appends a discovered point.
DiscoveredAppended == Len(gps_discovered') = Len(gps_discovered) + 1

\* The timing of the refreshes, with the condition due for those of the
\* second loop.
RefreshTiming(due) ==
    /\ (pc = "phase1" /\ pc' = "phase2") =>
           (RegionRefreshed <=> coord_history # <<>>)
    /\ (pc = "phase2" /\ pc' = "phase2") =>
           (RegionRefreshed <=> (DiscoveredAppended /\ due))
    /\ (pc = pc' /\ pc # "phase2") => ~RegionRefreshed
    /\ (pc = "phase2" /\ pc' = "parsed") => ~RegionRefreshed
    /\ coord_history' = <<>> => region_center' = <<>>

\* C11 as stated: the region estimate is recomputed once right after the
\* known-GPS phase when a known coordinate exists, and then exactly at the
\* 100th, 200th, ... discovered point, whatever the number of known points; it
\* is absent while the coordinate history is empty.
C11_RefreshAtHundredthDiscovered ==
    [][RefreshTiming(Len(gps_discovered') % RefreshEvery = 0)]_vars

\* C11, corrected: the region estimate is recomputed once right after the
\* known-GPS phase when a known coordinate exists, and then exactly when a
\* discovered point brings the length of the coordinate history, known
\* absolute points included, to a multiple of 100; it is absent while the
\* coordinate history is empty.
C11_RefreshAtHundredthHistoryEntry ==
    [][RefreshTiming(Len(coord_history') % RefreshEvery = 0)]_vars

\* One point short of a period of known points: the first discovered point
\* refreshed the estimate (it stands on a full period of records) and the second
\* did not.
C11_RefreshedAtFirstDiscovered ==
    /\ pc = "parsed"
    /\ Len(gps_known) = RefreshEvery - 1
    /\ Len(gps_discovered) = 2
    /\ Cardinality(region_pos) = RefreshEvery
    /\ region_pos = {gps_pos[i] : i \in 1..RefreshEvery}

-----------------------------------------------------------------------------
(* C12 *)

\* The latitudes (axis 1) or longitudes (axis 2) of the coordinate history.
Axis(a) == [i \in 1..Len(coord_history) |-> coord_history[i][a]]

\* v stands at 0-based index k of the values s put in ascending order: at most
\* k of them are smaller and more than k are not larger.
StandsAt(s, k, v) ==
    /\ \E i \in 1..Len(s) : s[i] = v
    /\ Cardinality({j \in 1..Len(s) : FLt(s[j], v)}) <= k
    /\ Cardinality({j \in 1..Len(s) : FLe(s[j], v)}) > k

\* A call of update_region_center leaves the estimate alone on an empty history
\* and else stores, per axis, the value at index middle of the sorted values.
StoresMedian(middle) ==
    (pc = "region" /\ pc' = "region_done") =>
        IF coord_history = <<>> THEN region_center' = region_center
        ELSE /\ Len(region_center') = 2
             /\ StandsAt(Axis(1), middle, region_center'[1])
             /\ StandsAt(Axis(2), middle, region_center'[2])

\* C12 as stated: update_region_center stores the per-axis median of the
\* latitudes and of the longitudes of the coordinate history, each in sorted
\* order, the lower of the two middle elements when their number is even; an
\* empty history leaves the estimate unchanged.
C12_LowerMedian ==
    [][StoresMedian((Len(coord_history) - 1) \div 2)]_vars

\* C12, corrected: update_region_center stores the per-axis median of the
\* latitudes and of the longitudes of the coordinate history, each in sorted
\* order, the upper of the two middle elements (index len // 2) when their
\* number is even; an empty history leaves the estimate unchanged.
C12_UpperMedian ==
    [][StoresMedian(Len(coord_history) \div 2)]_vars

\* A history of four points with four different latitudes: the stored latitude
\* has two smaller ones below it, and the stored pair is no point of the
\* history (each axis has its own median).
C12_UpperOfFour ==
    /\ pc = "region_done"
    /\ Len(coord_history) = 4
    /\ \A i, j \in 1..4 : i # j => coord_history[i][1] # coord_history[j][1]
    /\ Cardinality({j \in 1..4 : FLt(coord_history[j][1], region_center[1])}) = 2
    /\ \A i \in 1..4 : coord_history[i] # region_center

-----------------------------------------------------------------------------
(* C13 *)

\* The distance in metres between the discovered sample g and the history
\* entry h.
DistanceTo(g, h) ==
    calculate_distance(Deg5(g.latitude), Deg5(g.longitude), Deg5(h[1]), Deg5(h[2]))

\* The positions of the (at most 10) most recent entries of the history.
LastTen == {k \in 1..Len(coord_history) : k > Len(coord_history) - 10}

\* The current record holds, at a scanned offset, a valid pair that is not
\* inside (-1, 1) x (-1, 1).
HoldsPlausiblePair ==
    \E o \in 4..(Min(Len(records[idx].rec) - 8, 80) - 1) :
        LET lat == UnpackF(Slice(records[idx].rec, o, o + 4))
            lon == UnpackF(Slice(records[idx].rec, o + 4, o + 8))
        IN  is_valid_coordinate(lat, lon) /\ ~(MagLt(lat, F1) /\ MagLt(lon, F1))

\* C13: every discovered sample appended while the coordinate history is
\* non-empty lies less than 50 km from at least one of the (at most 10) most
\* recent history entries held when it is accepted, whatever the size of the
\* history; on an empty history the coherence check passes, so a record handed
\* to the locator that holds a plausible pair yields a discovered sample.
C13_CoherentWithLastTen ==
    [][/\ (DiscoveredAppended /\ coord_history # <<>>) =>
             \E k \in LastTen :
                 DistanceTo(gps_discovered'[Len(gps_discovered')], coord_history[k])
                     < Km(50)
       /\ (HandedToLocator /\ coord_history = <<>> /\ HoldsPlausiblePair) =>
             DiscoveredAppended]_vars

\* parse_all has returned with a sample discovered on a history of eleven
\* entries: it is near one of the last ten and far from the first, which had
\* left the window.
C13_AcceptedOnLongHistory ==
    /\ pc = "parsed"
    /\ Len(coord_history) = 12
    /\ Len(gps_discovered) = 1
    /\ \E k \in 2..11 : DistanceTo(gps_discovered[1], coord_history[k]) < Km(50)
    /\ DistanceTo(gps_discovered[1], coord_history[1]) > Km(50)

-----------------------------------------------------------------------------
(* C14 *)

\* The 0-based offsets of the delimiters of the buffer.
DelimiterOffsets == {i \in 0..(Len(data) - 1) : data[i + 1] = Delim}

\* The 0-based offset one past the record k.
EndOf(k) == records[k].pos + Len(records[k].rec)

\* C14: find_records terminates on every buffer and returns records in
\* strictly increasing start offset; each record begins with the delimiter
\* 0x7E at its start offset, holds no other 0x7E and ends just before the next
\* delimiter, or at the end of the buffer for the last one; the records
\* concatenated are the buffer from its first delimiter on, records shorter
\* than 4 bytes are returned too, and a buffer without a delimiter yields no
\* records.
C14_RecordsPartitionBuffer ==
    /\ pc = "start" => ENABLED FindRecords
    /\ pc # "start" =>
         /\ \A k \in 1..Len(records) :
               /\ records[k].pos \in DelimiterOffsets
               /\ Len(records[k].rec) >= 1
               /\ EndOf(k) <= Len(data)
               /\ records[k].rec = SubSeq(data, records[k].pos + 1, EndOf(k))
               /\ records[k].rec[1] = Delim
               /\ \A j \in 2..Len(records[k].rec) : records[k].rec[j] # Delim
               /\ IF k < Len(records)
                  THEN /\ records[k].pos < records[k + 1].pos
                       /\ EndOf(k) = records[k + 1].pos
                  ELSE EndOf(k) = Len(data)
         /\ {records[k].pos : k \in 1..Len(records)} = DelimiterOffsets
         /\ DelimiterOffsets = {} => records = <<>>
         /\ DelimiterOffsets # {} =>
               /\ \A i \in DelimiterOffsets : records[1].pos <= i
               /\ Concat([k \in 1..Len(records) |-> records[k].rec])
                      = SubSeq(data, records[1].pos + 1, Len(data))

\* find_records has returned, for a buffer that starts with a byte other than
\* the delimiter, a record shorter than 4 bytes and one of 4 bytes or more.
C14_ShortAndLongRecords ==
    /\ pc = "phase1"
    /\ data # <<>>
    /\ data[1] # Delim
    /\ \E k \in 1..Len(records) : Len(records[k].rec) < 4
    /\ \E k \in 1..Len(records) : Len(records[k].rec) >= 4

====
